---------------------------- MODULE Spec2Model ----------------------------
(***************************************************************************)
(* Tile acquisition pipeline of tiles-maps (src/index.js, second program,  *)
(* lines 195-454): main, processFailedTiles, downloadTilesForZoom,         *)
(* saveTile, the provider factory and the coordinate math.                 *)
(*                                                                         *)
(* JavaScript runs one handler at a time.  A batch is dispatched by one    *)
(* synchronous turn (every task runs up to its first pending await), and   *)
(* each fetch settles in a turn of its own.  The only place where a turn   *)
(* is split is fs.writeFileSync, because a process kill can fall between   *)
(* the truncating open and the last written byte.                          *)
(*                                                                         *)
(* Degrees are integers in units of 1e-4 degree.                           *)
(***************************************************************************)
EXTENDS Integers, Sequences, FiniteSets, TLC

(***************************************************************************)
(* Bounds of the model.                                                    *)
(***************************************************************************)
MaxZoom == 1
MaxTiles == 3
MaxThreadsArg == 2
MaxRuns == 2
MaxQuadZoom == 3
MaxBoxZoom == 2

(***************************************************************************)
(* Program constants.                                                      *)
(***************************************************************************)
DEFAULT_MAX_THREADS == 6

Providers == {"google", "yandex"}
\* a provider name that no case of TileProviderFactory.create matches
UnknownProvider == "nokia"
ProviderArgs == Providers \cup {UnknownProvider}
Langs == {"ru"}
\* parseInt of a missing argument; no tile index or thread count is negative
NaN == -1

Pow2(k) == 2 ^ k

(***************************************************************************)
(* Coordinate math.                                                        *)
(***************************************************************************)
\* atan(sinh(pi * (1 - 2*k/8))) * 180/pi for k = 0..7, in 1e-4 degree
MercatorLatE4 == <<850511, 791713, 665133, 409799, 0, -409799, -665133, -791713>>

TileLat(y, z) == MercatorLatE4[y * Pow2(3 - z) + 1]
TileLon(x, z) == (x * 3600000) \div Pow2(z) - 1800000

NoBounds == [north |-> 0, south |-> 0, west |-> 0, east |-> 0, given |-> FALSE]
\* a box around the north-west corner of the map: latitude -10 .. 90, longitude -180 .. -170
BoxNW == [north |-> 900000, south |-> -100000, west |-> -1800000, east |-> -1700000, given |-> TRUE]
BoundsArgs == {NoBounds, BoxNW}

isTileInBounds(x, y, z, b) ==
    IF ~b.given THEN TRUE
    ELSE /\ TileLat(y, z) >= b.south
         /\ TileLat(y, z) <= b.north
         /\ TileLon(x, z) >= b.west
         /\ TileLon(x, z) <= b.east

\* a counting loop without the bounds test
CountTilesWholeGrid(z, b) == Pow2(z) * Pow2(z)

\* the counting loop of downloadTilesForZoom
CountTiles(z, b) ==
    Cardinality({c \in (0 .. Pow2(z) - 1) \X (0 .. Pow2(z) - 1) : isTileInBounds(c[1], c[2], z, b)})

\* the download loop of downloadTilesForZoom: x outer, y inner
Enumerate(z, b) ==
    LET n == Pow2(z)
        grid == [i \in 1 .. n * n |-> <<(i - 1) \div n, (i - 1) % n>>]
        InB(c) == isTileInBounds(c[1], c[2], z, b)
    IN  SelectSeq(grid, InB)

\* the first program's latLonToTile: the column is the floor of the scaled
\* longitude; the row is the floor of the scaled Mercator ordinate, which falls
\* with the latitude, so it is the row k whose north edge is at or above lat and
\* whose south edge (the north edge of row k + 1) is below it
latLonToTile(lat, lon, zoom) ==
    [x |-> ((lon + 1800000) * Pow2(zoom)) \div 3600000,
     y |-> CHOOSE k \in 0 .. Pow2(zoom) - 1 :
              /\ TileLat(k, zoom) >= lat
              /\ k = Pow2(zoom) - 1 \/ TileLat(k + 1, zoom) < lat]

\* the point in the middle of a box
Center(b) == [lat |-> (b.north + b.south) \div 2, lon |-> (b.west + b.east) \div 2]

\* BOUNDS_MINSK of the first program
BOUNDS_MINSK == [north |-> 540250, south |-> 538000, west |-> 273500, east |-> 277500,
                 given |-> TRUE]

\* Edges of the boxes the bounds test is tried with: multiples of 1e-4 degree
\* that are even, so that the center of every box is exact; below the Mercator
\* limit, so that the center has a tile.
BoxLats == {-600000, -100000, 0, BOUNDS_MINSK.south, BOUNDS_MINSK.north, 700000, 850000}
BoxLons == {-1800000, -1700000, -900000, 0, BOUNDS_MINSK.west, BOUNDS_MINSK.east, 900000, 1700000}
Boxes == {b \in [north : BoxLats, south : BoxLats, west : BoxLons, east : BoxLons, given : {TRUE}] :
             b.north > b.south /\ b.west < b.east}

(***************************************************************************)
(* Bing quad keys.                                                         *)
(***************************************************************************)
\* 1 << n on 32-bit integers
ShiftLeft1(n) == IF n % 32 = 31 THEN -(2 ^ 31) ELSE 2 ^ (n % 32)

\* a & b for a, b >= 0
RECURSIVE BitAnd(_, _)
BitAnd(a, b) ==
    IF a = 0 \/ b = 0 THEN 0 ELSE (a % 2) * (b % 2) + 2 * BitAnd(a \div 2, b \div 2)

\* the weights of the two bits exchanged
QuadDigitSwapped(x, y, mask) ==
    (IF BitAnd(x, mask) # 0 THEN 2 ELSE 0) + (IF BitAnd(y, mask) # 0 THEN 1 ELSE 0)

\* one round of the loop of quadKey: the digit of the level with this mask
QuadDigit(x, y, mask) ==
    (IF BitAnd(x, mask) # 0 THEN 1 ELSE 0) + (IF BitAnd(y, mask) # 0 THEN 2 ELSE 0)

(***************************************************************************)
(* Provider registry.                                                      *)
(***************************************************************************)
TileProviderFactory(name, lang) == [name |-> name, langParam |-> lang]

\* the URL as the tuple of what the template substitutes
getTileUrl(p, x, y, z) == <<p.name, x, y, z, p.langParam>>

(***************************************************************************)
(* Tile store and failure ledger.                                          *)
(***************************************************************************)
\* path.join(TILE_FOLDER, '', 'NaN', 'NaN') and NaN.png: where saveTile puts the
\* tile of a record without fields
NaNPath == <<"", NaN, NaN, NaN>>
Paths == {t \in ProviderArgs \X (0 .. MaxZoom) \X (0 .. Pow2(MaxZoom) - 1) \X (0 .. Pow2(MaxZoom) - 1) :
             t[3] < Pow2(t[2]) /\ t[4] < Pow2(t[2])} \cup {NaNPath}
\* saveTile called with x and y exchanged
TilePathSwapped(rec) == <<rec.provider, rec.z, rec.y, rec.x>>

\* outputFile of saveTile: TILE_FOLDER/provider/z/x/y.png
TilePath(rec) == <<rec.provider, rec.z, rec.x, rec.y>>

NoFile == [exists |-> FALSE, url |-> <<>>, full |-> FALSE]
PartialFile(u) == [exists |-> TRUE, url |-> u, full |-> FALSE]
FullFile(u) == [exists |-> TRUE, url |-> u, full |-> TRUE]

NoLedger == [exists |-> FALSE, lines |-> <<>>]
LedgerLine(rec) == <<rec.provider, rec.z, rec.x, rec.y, rec.lang>>
\* the file exists and holds no byte
EmptyLedger == [exists |-> TRUE, lines |-> <<>>]
\* parseInt of the k-th field of a split line; a missing field is undefined
ParseIntField(l, k) == IF k <= Len(l) THEN l[k] ELSE NaN
\* const [providerName, z, x, y, lang] = line.split(',')
ParseLine(l) == [provider |-> l[1], z |-> ParseIntField(l, 2), x |-> ParseIntField(l, 3),
                 y |-> ParseIntField(l, 4), lang |-> IF Len(l) >= 5 THEN l[5] ELSE "undefined"]
\* a catch clause that only logs the failure, as the one of processFailedTiles
AppendLedgerLogOnly(led, rec) == led

\* fs.appendFileSync(FAILED_TILES_LOG, `${name},${z},${x},${y},${lang}\n`)
AppendLedger(led, rec) == [exists |-> TRUE, lines |-> Append(led.lines, LedgerLine(rec))]

Range(s) == {s[i] : i \in 1 .. Len(s)}

(***************************************************************************)
(* Progress lines.                                                         *)
(***************************************************************************)
\* the percentage printed is that of the tiles still to come
ProgressRemaining(c, t) == (20000 * (t - c) + t) \div (2 * t)

\* ((completedTiles / totalTiles) * 100).toFixed(2), in hundredths of a percent
Progress(c, t) == (20000 * c + t) \div (2 * t)

\* no progress line printed yet
NoReport == [percent |-> 0, kind |-> "none", call |-> 0, z |-> 0]

VARIABLES
    providerName, zoomStart, zoomEnd, bounds, lang, maxThreads,  \* process.argv
    pc,            \* position of main
    retryCall,     \* which call of processFailedTiles: 1 before, 2 after the zoom loop
    z,             \* loop variable of main
    remaining,     \* enumerated tasks not yet pushed to a dispatched batch
    tasks,         \* promises of the current pass, each with its batch number
    batchNo,       \* number of batches dispatched in the current pass
    totalTiles, completedTiles,
    writing,       \* index of the task inside fs.writeFileSync, or 0
    store, ledger, \* the file system
    runs,          \* number of process starts
    attempts,      \* observer: zoom-pass tasks started per path in this run
    fetches,       \* observer: axios.get calls in this run
    failing,       \* observer: records whose latest attempt in this run failed
    failedAgain,   \* observer: records that failed in the current retry pass
    drained,       \* failedTiles of the current retry pass
    store0, ledger0, \* observer: the file system when the run started
    sameAsPrev,    \* observer: the previous run completed with the same argv
    reported,      \* observer: the last progress line printed in this run
    call           \* a call of a pure function: its arguments, locals and result

argv == <<providerName, zoomStart, zoomEnd, bounds, lang, maxThreads>>
observers == <<attempts, fetches, failing, failedAgain, store0, ledger0, sameAsPrev, reported>>
runVars == <<argv, pc, retryCall, z, remaining, tasks, batchNo, totalTiles, completedTiles,
             writing, store, ledger, runs, drained, observers>>
vars == <<runVars, call>>

providerInstance == TileProviderFactory(providerName, lang)

\* const zoomEnd = parseInt(process.argv[4]) || zoomStart
ZoomEndOf(arg, zs) == IF arg = NaN \/ arg = 0 THEN zs ELSE arg
\* const maxThreads = parseInt(process.argv[7]) || 6
MaxThreadsOf(arg) == IF arg = NaN \/ arg = 0 THEN DEFAULT_MAX_THREADS ELSE arg

RECURSIVE SumTiles(_, _, _)
SumTiles(lo, hi, b) == IF lo > hi THEN 0 ELSE Len(Enumerate(lo, b)) + SumTiles(lo + 1, hi, b)

ArgvSet ==
    {a \in [provider : ProviderArgs, zoomStart : 0 .. MaxZoom, zoomEndArg : {NaN} \cup (0 .. MaxZoom),
            bounds : BoundsArgs, lang : Langs, threadsArg : 1 .. MaxThreadsArg] :
        SumTiles(a.zoomStart, ZoomEndOf(a.zoomEndArg, a.zoomStart), a.bounds) <= MaxTiles}

SetArgv(a) ==
    /\ providerName' = a.provider
    /\ zoomStart' = a.zoomStart
    /\ zoomEnd' = ZoomEndOf(a.zoomEndArg, a.zoomStart)
    /\ bounds' = a.bounds
    /\ lang' = a.lang
    /\ maxThreads' = MaxThreadsOf(a.threadsArg)

ZeroAttempts == [p \in Paths |-> 0]

\* The supported providers are interchangeable up to their names, so the first
\* start of the program is taken with one of them or with the unknown name;
\* every later start draws from all of ArgvSet.
FirstArgvSet == {a \in ArgvSet : a.provider \in {"google", UnknownProvider}}

InitRun ==
    /\ \E a \in FirstArgvSet :
        /\ providerName = a.provider
        /\ zoomStart = a.zoomStart
        /\ zoomEnd = ZoomEndOf(a.zoomEndArg, a.zoomStart)
        /\ bounds = a.bounds
        /\ lang = a.lang
        /\ maxThreads = MaxThreadsOf(a.threadsArg)
    /\ pc = "main"
    /\ retryCall = 1
    /\ z = 0
    /\ remaining = <<>>
    /\ tasks = <<>>
    /\ batchNo = 0
    /\ totalTiles = 0
    /\ completedTiles = 0
    /\ writing = 0
    /\ store = [p \in Paths |-> NoFile]
    /\ ledger = NoLedger
    /\ runs = 1
    /\ attempts = ZeroAttempts
    /\ fetches = 0
    /\ failing = {}
    /\ failedAgain = {}
    /\ drained = <<>>
    /\ store0 = [p \in Paths |-> NoFile]
    /\ ledger0 = NoLedger
    /\ sameAsPrev = FALSE
    /\ reported = NoReport

\* no pure function is being called
NoCall == [fn |-> "none"]

Init == InitRun /\ call = NoCall

(***************************************************************************)
(* Tasks: the async closures pushed to tilePromises.                       *)
(***************************************************************************)
Settled == {"skipped", "ok", "failed"}

\* the task of downloadTilesForZoom for (x, y) at zoom zz
ZoomTask(inst, c, zz, lg) ==
    [rec |-> [provider |-> inst.name, z |-> zz, x |-> c[1], y |-> c[2], lang |-> lg],
     url |-> getTileUrl(inst, c[1], c[2], zz)]

\* the task of processFailedTiles for one line of the ledger
RetryTask(inst, line) ==
    [rec |-> ParseLine(line),
     url |-> getTileUrl(inst, ParseLine(line).x, ParseLine(line).y, ParseLine(line).z)]

\* fs.readFileSync(FAILED_TILES_LOG).trim().split('\n'): the records of the
\* ledger; the split of the empty string is one empty line, whose own split is
\* one empty field
ReadLines(led) == IF led.lines = <<>> THEN << <<"">> >> ELSE led.lines

\* a dispatch test of length > maxThreads lets one task too many into a batch
BatchLenOffByOne(len, c) == IF c >= 1 /\ len >= c + 1 THEN c + 1 ELSE len

\* if (tilePromises.length === maxThreads) dispatch; after the loop dispatch what is left
BatchLen(len, c) == IF c >= 1 /\ len >= c THEN c ELSE len

\* a task without its catch clause never fulfils after a failure: the await of
\* the batch waits for ever
PromiseAllNoFailure(ts) == \A i \in 1 .. Len(ts) : ts[i].st \in {"skipped", "ok"}

\* Promise.race in place of Promise.all: the first settled task releases the await
PromiseRaceResolved(ts) == ts = <<>> \/ \E i \in 1 .. Len(ts) : ts[i].st \in Settled

\* await Promise.all(...): every task promise of the pass is fulfilled
PromiseAllResolved(ts) == \A i \in 1 .. Len(ts) : ts[i].st \in Settled

\* saveTile without the fs.existsSync test (as the first program's saveTile)
StartTaskNoExistsCheck(t, k, st) ==
    [rec |-> t.rec, url |-> t.url, batch |-> k, st |-> "fetching"]

\* the synchronous head of saveTile: fs.existsSync(outputFile)
StartTask(t, k, st) ==
    [rec |-> t.rec, url |-> t.url, batch |-> k,
     st |-> IF st[TilePath(t.rec)].exists THEN "skipped" ELSE "fetching"]

\* a promise that is neither fulfilled nor rejected yet
Pending(t) == t.st \notin Settled

CountPath(ts, p) == Cardinality({i \in 1 .. Len(ts) : TilePath(ts[i].rec) = p})
CountSt(ts, s) == Cardinality({i \in 1 .. Len(ts) : ts[i].st = s})
RecsSt(ts, s) == {ts[i].rec : i \in {j \in 1 .. Len(ts) : ts[j].st = s}}

InFlight == CountSt(tasks, "fetching")

\* console.log of the progress line of the running pass with c tiles completed
Report(c) == [percent |-> Progress(c, totalTiles), kind |-> pc, call |-> retryCall, z |-> z]

\* the statement of main that follows a call of processFailedTiles
AfterRetry ==
    IF retryCall = 1
    THEN /\ z' = zoomStart
         /\ IF zoomStart <= zoomEnd
            THEN pc' = "zoomEnter" /\ retryCall' = retryCall
            ELSE pc' = "retryEnter" /\ retryCall' = 2
    ELSE /\ pc' = "done"
         /\ UNCHANGED <<z, retryCall>>

(***************************************************************************)
(* main                                                                    *)
(***************************************************************************)
\* the default case of the switch returns a provider instead of throwing
SupportedAny(name) == TRUE

\* TileProviderFactory.create returns a provider for the names of its switch
\* and throws for every other name
Supported(name) == name \in Providers

\* main creates the provider before its first pass; the rejection of main is
\* caught by main().catch, which prints the error
Main ==
    /\ pc = "main"
    /\ pc' = IF Supported(providerName) THEN "retryEnter" ELSE "rejected"
    /\ retryCall' = 1
    /\ UNCHANGED <<argv, call, z, remaining, tasks, batchNo, totalTiles, completedTiles,
                   writing, store, ledger, runs, drained, observers>>

(***************************************************************************)
(* processFailedTiles                                                      *)
(***************************************************************************)
ProcessFailedTilesEnter ==
    /\ pc = "retryEnter"
    /\ IF ~ledger.exists
       THEN /\ AfterRetry
            /\ UNCHANGED <<remaining, tasks, batchNo, totalTiles, completedTiles,
                           drained, failedAgain>>
       ELSE /\ drained' = ReadLines(ledger)
            /\ totalTiles' = Len(ReadLines(ledger))
            /\ completedTiles' = 0
            /\ remaining' = [i \in 1 .. Len(ReadLines(ledger)) |->
                               RetryTask(providerInstance, ReadLines(ledger)[i])]
            /\ tasks' = SelectSeq(tasks, Pending)
            /\ batchNo' = 0
            /\ failedAgain' = {}
            /\ pc' = "retryRun"
            /\ UNCHANGED <<z, retryCall>>
    /\ UNCHANGED <<argv, call, writing, store, ledger, runs,
                   attempts, fetches, failing, store0, ledger0, sameAsPrev, reported>>

\* fs.unlinkSync(FAILED_TILES_LOG)
UnlinkLedger(led) == NoLedger

ProcessFailedTilesEnd ==
    /\ pc = "retryRun"
    /\ remaining = <<>>
    /\ writing = 0
    /\ PromiseAllResolved(tasks)
    /\ ledger' = UnlinkLedger(ledger)
    /\ AfterRetry
    /\ UNCHANGED <<argv, call, remaining, tasks, batchNo, totalTiles, completedTiles,
                   writing, store, runs, drained, observers>>

(***************************************************************************)
(* downloadTilesForZoom                                                    *)
(***************************************************************************)
DownloadTilesForZoomEnter ==
    /\ pc = "zoomEnter"
    /\ totalTiles' = CountTiles(z, bounds)
    /\ completedTiles' = 0
    /\ remaining' = [i \in 1 .. Len(Enumerate(z, bounds)) |->
                        ZoomTask(providerInstance, Enumerate(z, bounds)[i], z, lang)]
    /\ tasks' = SelectSeq(tasks, Pending)
    /\ batchNo' = 0
    /\ pc' = "zoomRun"
    /\ UNCHANGED <<argv, call, retryCall, z, writing, store, ledger, runs, drained, observers>>

DownloadTilesForZoomEnd ==
    /\ pc = "zoomRun"
    /\ remaining = <<>>
    /\ writing = 0
    /\ PromiseAllResolved(tasks)
    /\ z' = z + 1
    /\ IF z + 1 <= zoomEnd
       THEN pc' = "zoomEnter" /\ retryCall' = retryCall
       ELSE pc' = "retryEnter" /\ retryCall' = 2
    /\ UNCHANGED <<argv, call, remaining, tasks, batchNo, totalTiles, completedTiles,
                   writing, store, ledger, runs, drained, observers>>

(***************************************************************************)
(* One batch: await Promise.all(tilePromises.map(promise => promise()))    *)
(***************************************************************************)
DispatchBatch ==
    /\ pc \in {"zoomRun", "retryRun"}
    /\ remaining # <<>>
    /\ writing = 0
    /\ PromiseAllResolved(tasks)
    /\ LET n == BatchLen(Len(remaining), maxThreads)
           started == [i \in 1 .. n |-> StartTask(remaining[i], batchNo + 1, store)]
       IN  /\ tasks' = SelectSeq(tasks, Pending) \o started
           /\ remaining' = SubSeq(remaining, n + 1, Len(remaining))
           /\ batchNo' = batchNo + 1
           /\ completedTiles' = completedTiles + CountSt(started, "skipped")
           /\ fetches' = fetches + CountSt(started, "fetching")
           /\ attempts' = IF pc = "zoomRun"
                          THEN [p \in Paths |-> attempts[p] + CountPath(started, p)]
                          ELSE attempts
           /\ failing' = failing \ RecsSt(started, "skipped")
           /\ reported' = IF CountSt(started, "skipped") > 0
                          THEN Report(completedTiles + CountSt(started, "skipped"))
                          ELSE reported
    /\ UNCHANGED <<argv, call, pc, retryCall, z, totalTiles, writing, store, ledger, runs,
                   drained, failedAgain, store0, ledger0, sameAsPrev>>

(***************************************************************************)
(* The catch block of a task, after saveTile has thrown.                   *)
(***************************************************************************)
\* a task without its catch block: the rejection ends the pass, the rest is never pushed
AfterTaskErrorAbort(rem) == <<>>

\* the catch block swallows the error: the enumeration loop goes on with what is left
AfterTaskError(rem) == rem

\* a failed save that removes the file it was writing
AfterWriteErrorUnlink(f) == NoFile

\* writeFileSync throws after the open: the file stays as the failed write left it
AfterWriteError(f) == f

TaskCatch(i) ==
    /\ tasks' = [tasks EXCEPT ![i].st = "failed"]
    /\ remaining' = AfterTaskError(remaining)
    /\ failing' = failing \cup {tasks[i].rec}
    /\ IF pc = "zoomRun"
       THEN /\ ledger' = AppendLedger(ledger, tasks[i].rec)
            /\ UNCHANGED failedAgain
       ELSE /\ failedAgain' = failedAgain \cup {tasks[i].rec}
            /\ UNCHANGED ledger

\* axios.get rejects, or mkdirSync / the open of writeFileSync throws: no byte written
SaveTileThrow(i) ==
    /\ pc \in {"zoomRun", "retryRun"}
    /\ writing = 0
    /\ i \in 1 .. Len(tasks)
    /\ tasks[i].st = "fetching"
    /\ TaskCatch(i)
    /\ UNCHANGED <<argv, call, pc, retryCall, z, batchNo, totalTiles, completedTiles,
                   writing, store, runs, drained,
                   attempts, fetches, store0, ledger0, sameAsPrev, reported>>

\* the response arrived; fs.mkdirSync; fs.writeFileSync has opened (truncated) the file
WriteBegin(i) ==
    /\ pc \in {"zoomRun", "retryRun"}
    /\ writing = 0
    /\ i \in 1 .. Len(tasks)
    /\ tasks[i].st = "fetching"
    /\ store' = [store EXCEPT ![TilePath(tasks[i].rec)] = PartialFile(tasks[i].url)]
    /\ tasks' = [tasks EXCEPT ![i].st = "writing"]
    /\ writing' = i
    /\ UNCHANGED <<argv, call, pc, retryCall, z, remaining, batchNo, totalTiles, completedTiles,
                   ledger, runs, drained, observers>>

\* fs.writeFileSync returns; the task counts the tile and resolves
WriteEnd(i) ==
    /\ writing = i
    /\ i \in 1 .. Len(tasks)
    /\ store' = [store EXCEPT ![TilePath(tasks[i].rec)] = FullFile(tasks[i].url)]
    /\ tasks' = [tasks EXCEPT ![i].st = "ok"]
    /\ completedTiles' = completedTiles + 1
    /\ reported' = Report(completedTiles + 1)
    /\ failing' = failing \ {tasks[i].rec}
    /\ writing' = 0
    /\ UNCHANGED <<argv, call, pc, retryCall, z, remaining, batchNo, totalTiles,
                   ledger, runs, drained,
                   attempts, fetches, failedAgain, store0, ledger0, sameAsPrev>>

\* fs.writeFileSync throws after the open (disk full): the truncated file stays
WriteError(i) ==
    /\ writing = i
    /\ i \in 1 .. Len(tasks)
    /\ TaskCatch(i)
    /\ store' = [store EXCEPT ![TilePath(tasks[i].rec)] = AfterWriteError(@)]
    /\ writing' = 0
    /\ UNCHANGED <<argv, call, pc, retryCall, z, batchNo, totalTiles, completedTiles,
                   runs, drained,
                   attempts, fetches, store0, ledger0, sameAsPrev, reported>>

(***************************************************************************)
(* The process is killed; the next start of the program.                   *)
(***************************************************************************)
Killed ==
    /\ pc' = "crashed"
    /\ retryCall' = 1
    /\ z' = 0
    /\ remaining' = <<>>
    /\ tasks' = <<>>
    /\ batchNo' = 0
    /\ totalTiles' = 0
    /\ completedTiles' = 0
    /\ writing' = 0
    /\ drained' = <<>>
    /\ attempts' = ZeroAttempts
    /\ fetches' = 0
    /\ failing' = {}
    /\ failedAgain' = {}
    /\ reported' = NoReport
    /\ UNCHANGED <<argv, call, store, runs, store0, ledger0, sameAsPrev>>

Crash ==
    /\ pc \notin {"done", "rejected", "crashed"}
    /\ Killed
    /\ UNCHANGED ledger

\* the kill falls inside the fs.appendFileSync of a task's catch clause, after
\* the open has created the ledger file and before the record is written
CrashInAppend ==
    /\ pc = "zoomRun"
    /\ \E i \in 1 .. Len(tasks) : tasks[i].st \in {"fetching", "writing"}
    /\ ~ledger.exists
    /\ Killed
    /\ ledger' = EmptyLedger

Restart ==
    /\ pc \in {"done", "rejected", "crashed"}
    /\ runs < MaxRuns
    /\ \E a \in ArgvSet :
        /\ SetArgv(a)
        /\ sameAsPrev' = /\ pc = "done"
                         /\ a.provider = providerName
                         /\ a.zoomStart = zoomStart
                         /\ ZoomEndOf(a.zoomEndArg, a.zoomStart) = zoomEnd
                         /\ a.bounds = bounds
                         /\ a.lang = lang
                         /\ MaxThreadsOf(a.threadsArg) = maxThreads
    /\ pc' = "main"
    /\ retryCall' = 1
    /\ z' = 0
    /\ remaining' = <<>>
    /\ tasks' = <<>>
    /\ batchNo' = 0
    /\ totalTiles' = 0
    /\ completedTiles' = 0
    /\ writing' = 0
    /\ runs' = runs + 1
    /\ attempts' = ZeroAttempts
    /\ fetches' = 0
    /\ failing' = {}
    /\ failedAgain' = {}
    /\ drained' = <<>>
    /\ store0' = store
    /\ ledger0' = ledger
    /\ reported' = NoReport
    /\ UNCHANGED <<store, ledger, call>>

Next ==
    \/ Main
    \/ ProcessFailedTilesEnter
    \/ ProcessFailedTilesEnd
    \/ DownloadTilesForZoomEnter
    \/ DownloadTilesForZoomEnd
    \/ DispatchBatch
    \/ \E i \in 1 .. MaxTiles + 1 : SaveTileThrow(i)
    \/ \E i \in 1 .. MaxTiles + 1 : WriteBegin(i)
    \/ \E i \in 1 .. MaxTiles + 1 : WriteEnd(i)
    \/ \E i \in 1 .. MaxTiles + 1 : WriteError(i)
    \/ Crash
    \/ CrashInAppend
    \/ Restart

Spec == Init /\ [][Next]_vars

(***************************************************************************)
(* One run in which the fs.appendFileSync of logToFile may throw inside a  *)
(* tile attempt (log volume full, log folder removed).                     *)
(***************************************************************************)
\* The tile is written; then logToFile('Saved tile') in saveTile (counted =
\* FALSE) or logToFile('Progress') in the task (counted = TRUE) throws.  The
\* error lands in the catch clause of the task, which records the tile in the
\* ledger (zoom pass) and logs again; if that log throws too (again = TRUE)
\* the task promise rejects.
LogThrowsAfterSave(i) ==
    /\ pc \in {"zoomRun", "retryRun"}
    /\ writing = i
    /\ i \in 1 .. Len(tasks)
    /\ \E counted \in BOOLEAN, again \in BOOLEAN :
        /\ completedTiles' = IF counted THEN completedTiles + 1 ELSE completedTiles
        /\ reported' = IF counted THEN Report(completedTiles + 1) ELSE reported
        /\ tasks' = [tasks EXCEPT ![i].st = IF again THEN "rejected" ELSE "failed"]
    /\ store' = [store EXCEPT ![TilePath(tasks[i].rec)] = FullFile(tasks[i].url)]
    /\ ledger' = IF pc = "zoomRun" THEN AppendLedger(ledger, tasks[i].rec) ELSE ledger
    /\ failing' = failing \ {tasks[i].rec}
    /\ writing' = 0
    /\ UNCHANGED <<argv, call, pc, retryCall, z, remaining, batchNo, totalTiles, runs, drained,
                   attempts, fetches, failedAgain, store0, ledger0, sameAsPrev>>

\* The fetch fails and the logToFile of the task's catch clause throws: the
\* ledger has the record (zoom pass) and the task promise rejects.
LogThrowsInCatch(i) ==
    /\ pc \in {"zoomRun", "retryRun"}
    /\ writing = 0
    /\ i \in 1 .. Len(tasks)
    /\ tasks[i].st = "fetching"
    /\ tasks' = [tasks EXCEPT ![i].st = "rejected"]
    /\ ledger' = IF pc = "zoomRun" THEN AppendLedger(ledger, tasks[i].rec) ELSE ledger
    /\ failing' = failing \cup {tasks[i].rec}
    /\ failedAgain' = IF pc = "retryRun" THEN failedAgain \cup {tasks[i].rec} ELSE failedAgain
    /\ UNCHANGED <<argv, call, pc, retryCall, z, remaining, batchNo, totalTiles, completedTiles,
                   writing, store, runs, drained,
                   attempts, fetches, store0, ledger0, sameAsPrev, reported>>

\* Promise.all rejects with the rejected task, the pass and main reject, and
\* main().catch prints the error; the process ends when the tasks that were
\* still in flight have settled.
PromiseAllRejects ==
    /\ pc \in {"zoomRun", "retryRun"}
    /\ writing = 0
    /\ \E i \in 1 .. Len(tasks) : tasks[i].st = "rejected"
    /\ \A i \in 1 .. Len(tasks) : tasks[i].st # "fetching"
    /\ pc' = "rejected"
    /\ UNCHANGED <<argv, call, retryCall, z, remaining, tasks, batchNo, totalTiles, completedTiles,
                   writing, store, ledger, runs, drained, observers>>

NextLog ==
    \/ Main
    \/ ProcessFailedTilesEnter
    \/ ProcessFailedTilesEnd
    \/ DownloadTilesForZoomEnter
    \/ DownloadTilesForZoomEnd
    \/ DispatchBatch
    \/ \E i \in 1 .. MaxTiles + 1 : SaveTileThrow(i)
    \/ \E i \in 1 .. MaxTiles + 1 : WriteBegin(i)
    \/ \E i \in 1 .. MaxTiles + 1 : WriteEnd(i)
    \/ \E i \in 1 .. MaxTiles + 1 : WriteError(i)
    \/ \E i \in 1 .. MaxTiles + 1 : LogThrowsAfterSave(i)
    \/ \E i \in 1 .. MaxTiles + 1 : LogThrowsInCatch(i)
    \/ PromiseAllRejects

SpecLog == Init /\ [][NextLog]_vars

(***************************************************************************)
(* One run that is not killed.  Node's event loop runs every continuation  *)
(* that is ready, and every fetch that was started settles: a step of the  *)
(* run that can be taken is taken.                                         *)
(***************************************************************************)
NextRun ==
    \/ Main
    \/ ProcessFailedTilesEnter
    \/ ProcessFailedTilesEnd
    \/ DownloadTilesForZoomEnter
    \/ DownloadTilesForZoomEnd
    \/ DispatchBatch
    \/ \E i \in 1 .. MaxTiles + 1 : SaveTileThrow(i)
    \/ \E i \in 1 .. MaxTiles + 1 : WriteBegin(i)
    \/ \E i \in 1 .. MaxTiles + 1 : WriteEnd(i)
    \/ \E i \in 1 .. MaxTiles + 1 : WriteError(i)

SpecRun == Init /\ [][NextRun]_vars /\ WF_vars(NextRun)

(***************************************************************************)
(* The pure functions, called on their own: quadKey, and the bounds test   *)
(* applied to the tile of a box's center.                                  *)
(***************************************************************************)
\* quadKey(x, y, z) entered: key = '', i = z; the key is a sequence of digits
QuadKeyCalls ==
    {[fn |-> "quadKey", x |-> c[1], y |-> c[2], z |-> c[3], i |-> c[3], key |-> <<>>] :
        c \in {d \in (0 .. ShiftLeft1(MaxQuadZoom) - 1) \X (0 .. ShiftLeft1(MaxQuadZoom) - 1)
                         \X (1 .. MaxQuadZoom) :
                  d[1] < ShiftLeft1(d[3]) /\ d[2] < ShiftLeft1(d[3])}}

CenterTileCalls ==
    {[fn |-> "centerTile", box |-> b, zoom |-> zz, done |-> FALSE, tile |-> [x |-> 0, y |-> 0],
      inBounds |-> FALSE] : b \in Boxes, zz \in 1 .. MaxBoxZoom}

\* one round of for (let i = z; i > 0; i--); the call returns key when i is 0
QuadKeyLoop ==
    /\ call.fn = "quadKey"
    /\ call.i > 0
    /\ call' = [call EXCEPT !.key = Append(@, QuadDigit(call.x, call.y, ShiftLeft1(call.i - 1))),
                            !.i = @ - 1]
    /\ UNCHANGED runVars

\* isTileInBounds asked about the tile that holds the center of the box
CenterTile ==
    /\ call.fn = "centerTile"
    /\ ~call.done
    /\ LET c == Center(call.box)
           t == latLonToTile(c.lat, c.lon, call.zoom)
       IN  call' = [call EXCEPT !.done = TRUE,
                                !.tile = t,
                                !.inBounds = isTileInBounds(t.x, t.y, call.zoom, call.box)]
    /\ UNCHANGED runVars

NextFn ==
    \/ QuadKeyLoop
    \/ CenterTile

InitFn ==
    /\ InitRun
    /\ providerName = "google" /\ zoomStart = 0 /\ zoomEnd = 0 /\ ~bounds.given /\ maxThreads = 1
    /\ call \in QuadKeyCalls \cup CenterTileCalls

SpecFn == InitFn /\ [][NextFn]_vars

TypeOK ==
    /\ pc \in {"main", "retryEnter", "retryRun", "zoomEnter", "zoomRun", "done", "rejected", "crashed"}
    /\ writing \in 0 .. Len(tasks)
    /\ completedTiles \in 0 .. MaxTiles + 1

(***************************************************************************)
(* Properties                                                              *)
(***************************************************************************)
\* the zoom pass of level zz has returned
PassOver(zz) ==
    \/ pc = "done"
    \/ pc \in {"retryEnter", "retryRun"} /\ retryCall = 2
    \/ pc \in {"zoomEnter", "zoomRun"} /\ z > zz

LedgerSet(led) == Range(led.lines)

\* C1: at every instant of a zoom pass or a retry pass, the number of fetches
\* started and not yet settled is at most the concurrency (maxThreads >= 1).
C1_InFlightAtMostConcurrency ==
    /\ maxThreads >= 1
    /\ InFlight <= maxThreads

C1_Witness ==
    /\ pc = "retryRun"
    /\ maxThreads = 2
    /\ InFlight = maxThreads
    /\ remaining # <<>>

\* C2: no task of a later batch exists while a task of an earlier batch of the
\* same pass has not settled its fetch, store and ledger append; this holds
\* whether the earlier tasks succeeded, were skipped or failed.
C2_BatchBarrier ==
    \A i \in 1 .. Len(tasks) : tasks[i].batch = batchNo \/ tasks[i].st \in Settled

C2_Witness ==
    /\ pc = "zoomRun"
    /\ batchNo >= 2
    /\ InFlight >= 1
    /\ \E r \in failing : r.z = z /\ r.provider = providerName

\* C3: whatever tiles fail, no enumerated tile is dispatched twice by the zoom
\* passes of a run, and once the pass of a zoom level has returned every
\* in-bounds tile of that level has been dispatched exactly once.
C3_FailureIsolation ==
    /\ \A p \in Paths : attempts[p] <= 1
    /\ pc # "crashed" =>
          \A zz \in zoomStart .. zoomEnd :
              PassOver(zz) =>
                  \A c \in Range(Enumerate(zz, bounds)) :
                      attempts[<<providerName, zz, c[1], c[2]>>] = 1

C3_Witness ==
    /\ pc = "done"
    /\ zoomEnd > zoomStart
    /\ maxThreads = 1
    /\ \E r \in failing : r.z = zoomStart
    /\ \A zz \in zoomStart .. zoomEnd :
          \A c \in Range(Enumerate(zz, bounds)) : attempts[<<providerName, zz, c[1], c[2]>>] = 1

\* C4: when a run that started without a ledger ends, the ledger holds exactly
\* the records of the tiles that kept failing in that run.
C4_LedgerHoldsRunFailures ==
    (pc = "done" /\ ~ledger0.exists) =>
        LedgerSet(ledger) = {LedgerLine(r) : r \in failing}

\* C5: when a retry pass returns, the ledger holds exactly the drained records
\* that failed again in this pass.
C5_RetryKeepsFailures ==
    [][(pc = "retryRun" /\ pc' \notin {"retryRun", "crashed"}) =>
          LedgerSet(ledger') = {LedgerLine(r) : r \in failedAgain}]_vars

\* C6: a retry task fetches the URL of the provider and locale stored in its
\* record, so every file of the store holds bytes of the provider of its path.
C6_RetryUsesRecordProvider ==
    /\ \A i \in 1 .. Len(tasks) :
          tasks[i].url = getTileUrl(TileProviderFactory(tasks[i].rec.provider, tasks[i].rec.lang),
                                    tasks[i].rec.x, tasks[i].rec.y, tasks[i].rec.z)
    /\ \A p \in Paths : store[p].exists => store[p].url[1] = p[1]

\* every in-bounds tile of the run's arguments has a file in st
HoldsEveryTile(st) ==
    \A zz \in zoomStart .. zoomEnd :
        \A c \in Range(Enumerate(zz, bounds)) : st[<<providerName, zz, c[1], c[2]>>].exists

\* C7: no fetch is in flight for a tile whose file exists; a run that follows a
\* completed run with the same arguments, on a store that holds every in-bounds
\* tile, issues no fetch and leaves the store and the ledger as they were.
C7_Idempotence ==
    /\ \A i \in 1 .. Len(tasks) :
          tasks[i].st = "fetching" => ~store[TilePath(tasks[i].rec)].exists
    /\ (pc # "crashed" /\ sameAsPrev /\ HoldsEveryTile(store0)) =>
          /\ fetches = 0
          /\ store = store0
          /\ ledger = ledger0

C7_Witness ==
    /\ pc = "done"
    /\ sameAsPrev
    /\ HoldsEveryTile(store0)
    /\ zoomEnd > zoomStart
    /\ \A zz \in zoomStart .. zoomEnd :
          \A c \in Range(Enumerate(zz, bounds)) : attempts[<<providerName, zz, c[1], c[2]>>] = 1

\* C8: no step of any pass, with any outcome of fetch and save, removes a
\* file from the tile store.
C8_StoreOnlyGrows ==
    [][\A p \in Paths : store[p].exists => store'[p].exists]_vars

C8_Witness ==
    /\ pc = "retryRun"
    /\ failedAgain # {}
    /\ \E p \in Paths : store[p].exists /\ ~store[p].full
    /\ \E p \in Paths : store[p].full

\* C9: when every task of a zoom pass has settled, completedTiles = totalTiles.
C9_CompletedEqualsTotal ==
    (pc = "zoomRun" /\ remaining = <<>> /\ PromiseAllResolved(tasks)) =>
        completedTiles = totalTiles

\* C10: after a kill of the process at any point of a save, a file at the
\* final path of a tile holds the complete bytes of the tile.
C10_NoPartialTileAfterCrash ==
    pc = "crashed" => \A p \in Paths : store[p].exists => store[p].full

\* C11: the zoom passes run in ascending order without overlap: every task that
\* has not settled belongs to the zoom level of the running pass, a tile of a
\* level is started only when every in-bounds tile of each lower level of the
\* range has been started and has settled, and no level above the running one
\* has a started tile.
C11_ZoomLevelsAscending ==
    pc \in {"zoomEnter", "zoomRun"} =>
        /\ z \in zoomStart .. zoomEnd
        /\ \A i \in 1 .. Len(tasks) : Pending(tasks[i]) => tasks[i].rec.z = z
        /\ \A p \in Paths : attempts[p] > 0 => p[2] \in zoomStart .. z
        /\ \A zz \in zoomStart .. zoomEnd :
              zz < z => \A c \in Range(Enumerate(zz, bounds)) :
                            attempts[<<providerName, zz, c[1], c[2]>>] = 1

C11_Witness ==
    /\ pc = "zoomRun"
    /\ z > zoomStart
    /\ InFlight >= 1
    /\ \E p \in Paths : p[2] < z /\ attempts[p] = 1
    /\ \E r \in failing : r.z < z

\* C12: a run started with a provider name that the factory does not know ends
\* before its first pass: it issues no fetch, starts no task and leaves the tile
\* store and the failure ledger as it found them.
C12_UnknownProviderRejected ==
    providerName \notin Providers =>
        /\ pc \in {"main", "rejected", "crashed"}
        /\ fetches = 0
        /\ tasks = <<>>
        /\ store = store0
        /\ ledger = ledger0

C12_Witness ==
    /\ pc = "rejected"
    /\ providerName = UnknownProvider
    /\ ledger.exists
    /\ \E p \in Paths : store[p].exists

\* C13: a retry pass that finds the ledger file without a record in it does no
\* work: it has no task in flight (the pass over an absent ledger is never
\* entered at all).
C13_EmptyLedgerNoFetch ==
    (pc = "retryRun" /\ ledger.lines = <<>>) => InFlight = 0

\* C14: a failing write of the progress log inside a tile attempt is not fatal
\* and does not change the outcome of the tile: the run of a known provider is
\* not ended by a rejection, and in a zoom pass no tile of the running batch
\* whose file was stored in full has a record in the ledger.
C14_LoggingNeverFatal ==
    /\ pc = "rejected" => providerName \notin Providers
    /\ pc = "zoomRun" =>
          \A i \in 1 .. Len(tasks) :
              store[TilePath(tasks[i].rec)].full =>
                  LedgerLine(tasks[i].rec) \notin Range(ledger.lines)

\* C15 as stated: over one run the percentages printed by the zoom passes never
\* decrease, the step from one zoom level to the next included.
C15_ProgressMonotoneAcrossRun ==
    [][(reported.kind = "zoomRun" /\ reported'.kind = "zoomRun") =>
          reported'.percent >= reported.percent]_vars

\* C15: within one pass (one zoom level, or one retry pass) the percentages
\* printed never decrease, in whatever order the tasks of a batch complete; the
\* count starts again from zero with every pass.
C15_ProgressMonotoneInPass ==
    [][(/\ reported.kind # "none"
        /\ reported'.kind = reported.kind
        /\ reported'.call = reported.call
        /\ reported'.z = reported.z) =>
          reported'.percent >= reported.percent]_vars

C15_Witness ==
    /\ pc = "zoomRun"
    /\ reported.kind = "zoomRun"
    /\ reported.z = z
    /\ completedTiles = 2
    /\ reported.percent = 10000

\* bit j of v
Bit(v, j) == (v \div (2 ^ j)) % 2

\* C16: for z >= 1 and x, y in [0, 2^z) the key returned by quadKey has exactly
\* z digits and its k-th digit is bit(x, z-k) + 2 * bit(y, z-k), the most
\* significant level first; (0,0,1) gives "0", (1,1,1) gives "3" and (1,0,2)
\* gives "01".
C16_QuadKeyDigits ==
    (call.fn = "quadKey" /\ call.i = 0) =>
        /\ Len(call.key) = call.z
        /\ \A k \in 1 .. call.z :
              call.key[k] = Bit(call.x, call.z - k) + 2 * Bit(call.y, call.z - k)
        /\ (call.x = 0 /\ call.y = 0 /\ call.z = 1) => call.key = <<0>>
        /\ (call.x = 1 /\ call.y = 1 /\ call.z = 1) => call.key = <<3>>
        /\ (call.x = 1 /\ call.y = 0 /\ call.z = 2) => call.key = <<0, 1>>

C16_Witness ==
    /\ call.fn = "quadKey"
    /\ call.i = 0
    /\ call.z = 3
    /\ call.key = <<1, 2, 3>>

\* C17: for every box with north > south and west < east and every zoom >= 1
\* the bounds test accepts the tile that contains the center of the box.
C17_CenterTileInBounds ==
    (call.fn = "centerTile" /\ call.done) => call.inBounds

\* the tasks of the running pass in the order of their enumeration
PassTasks ==
    IF pc = "zoomRun"
    THEN [i \in 1 .. Len(Enumerate(z, bounds)) |->
             ZoomTask(providerInstance, Enumerate(z, bounds)[i], z, lang)]
    ELSE [i \in 1 .. Len(drained) |-> RetryTask(providerInstance, drained[i])]

\* C18: a pass cuts its tiles, in the order of enumeration, into consecutive
\* batches of exactly maxThreads tiles; only the last batch may be smaller and
\* no batch is empty; the tiles of a batch are started together, and the
\* batches are dispatched in the order of enumeration.
C18_BatchingDiscipline ==
    pc \in {"zoomRun", "retryRun"} =>
        LET all == PassTasks
            dispatched == Len(all) - Len(remaining)
        IN  /\ remaining = SubSeq(all, dispatched + 1, Len(all))
            /\ batchNo = 0 => dispatched = 0 /\ tasks = <<>>
            /\ batchNo >= 1 =>
                  /\ Len(tasks) \in 1 .. maxThreads
                  /\ remaining # <<>> => Len(tasks) = maxThreads
                  /\ dispatched = (batchNo - 1) * maxThreads + Len(tasks)
                  /\ \A i \in 1 .. Len(tasks) :
                        /\ tasks[i].batch = batchNo
                        /\ tasks[i].rec = all[(batchNo - 1) * maxThreads + i].rec
                        /\ tasks[i].url = all[(batchNo - 1) * maxThreads + i].url

C18_Witness ==
    /\ pc = "retryRun"
    /\ maxThreads = 2
    /\ batchNo = 2
    /\ Len(tasks) = 1
    /\ totalTiles = 3

\* C19: totalTiles of a zoom pass is fixed before the first fetch of the pass
\* and equals the number of tasks the pass dispatches, one per coordinate that
\* passes the bounds test; without a box it is 2^z * 2^z.
C19_TotalTilesIsDispatchCount ==
    pc = "zoomRun" =>
        /\ \A p \in Paths : attempts[p] <= 1
        /\ totalTiles = Len(remaining)
                        + Cardinality({p \in Paths : p[1] = providerName /\ p[2] = z /\ attempts[p] = 1})
        /\ ~bounds.given => totalTiles = (2 ^ z) * (2 ^ z)

C19_Witness ==
    /\ pc = "zoomRun"
    /\ bounds.given
    /\ z = 1
    /\ remaining = <<>>
    /\ totalTiles = 2
    /\ fetches >= 2

\* C20: when every fetch that was started settles, a run that is not killed
\* ends: main returns after the last batch of the closing retry pass, whatever
\* failed (a run with an unknown provider ends at once, rejected).
C20_RunEnds ==
    <>(pc = "done" \/ (pc = "rejected" /\ providerName \notin Providers))

C20_Witness ==
    /\ pc = "done"
    /\ zoomEnd > zoomStart
    /\ maxThreads = 2
    /\ Cardinality(failing) >= 2

\* downloadTilesForZoom has just returned to main, for the level z - 1
ZoomPassReturned ==
    /\ z > zoomStart
    /\ \/ pc = "zoomEnter"
       \/ pc = "retryEnter" /\ retryCall = 2

\* the ledger holds a record with this provider, zoom, x and y
HasRecord(led, name, zz, c) ==
    \E i \in 1 .. Len(led.lines) :
        /\ Len(led.lines[i]) >= 4
        /\ led.lines[i][1] = name
        /\ led.lines[i][2] = zz
        /\ led.lines[i][3] = c[1]
        /\ led.lines[i][4] = c[2]

\* C21: when downloadTilesForZoom returns for a zoom level, every coordinate of
\* that level that passes the bounds test has a file in the tile store or a
\* record with its provider, zoom, x and y in the failure ledger, whatever
\* fetches and writes failed.
C21_NoTileLostByZoomPass ==
    ZoomPassReturned =>
        \A c \in Range(Enumerate(z - 1, bounds)) :
            \/ store[<<providerName, z - 1, c[1], c[2]>>].exists
            \/ HasRecord(ledger, providerName, z - 1, c)

C21_Witness ==
    /\ ZoomPassReturned
    /\ \E c \in Range(Enumerate(z - 1, bounds)) :
          /\ ~store[<<providerName, z - 1, c[1], c[2]>>].exists
          /\ HasRecord(ledger, providerName, z - 1, c)
    /\ \E c \in Range(Enumerate(z - 1, bounds)) :
          /\ store[<<providerName, z - 1, c[1], c[2]>>].full
          /\ ~HasRecord(ledger, providerName, z - 1, c)

\* C22: the frame of a tile attempt.  A step in which the fetch of a task fails
\* leaves the tile store as it was and changes the ledger only by appending the
\* record of that task (zoom pass; a retry pass appends nothing).  A step of a
\* task that succeeds leaves the ledger as it was and changes the store at most
\* at the path of that task's own coordinate.  The dispatch step, in which the
\* tasks over existing files are skipped, changes neither store nor ledger.
C22_TileAttemptFrame ==
    [][/\ batchNo' = batchNo + 1 => store' = store /\ ledger' = ledger
       /\ Len(tasks') = Len(tasks) =>
             \A i \in 1 .. Len(tasks) :
                LET r == tasks[i].rec
                    own == <<r.provider, r.z, r.x, r.y>>
                IN  /\ (tasks[i].st = "fetching" /\ tasks'[i].st = "failed") =>
                          /\ store' = store
                          /\ ledger' = IF pc = "zoomRun"
                                       THEN [exists |-> TRUE,
                                             lines |-> Append(ledger.lines,
                                                              <<r.provider, r.z, r.x, r.y, r.lang>>)]
                                       ELSE ledger
                    /\ (tasks[i].st \in {"fetching", "writing"} /\ tasks'[i].st \in {"writing", "ok"}
                        /\ tasks'[i].st # tasks[i].st) =>
                          /\ ledger' = ledger
                          /\ \A p \in Paths \ {own} : store'[p] = store[p]]_vars

C22_Witness ==
    /\ pc = "zoomRun"
    /\ Len(tasks) = 2
    /\ tasks[1].st = "failed"
    /\ tasks[2].st = "ok"
    /\ tasks[2].rec.x # tasks[2].rec.y
    /\ store[<<tasks[2].rec.provider, tasks[2].rec.z, tasks[2].rec.x, tasks[2].rec.y>>].full
    /\ ~store[<<tasks[1].rec.provider, tasks[1].rec.z, tasks[1].rec.x, tasks[1].rec.y>>].exists

=============================================================================
